---- MODULE Spec2Model ----
(***************************************************************************)
\* Personal Health Planner Bot (personal-health-planner-bot.py).          
\*                                                                        
\* Two specifications over one set of variables:                          
\*   Spec         the Streamlit script main() rerun after rerun, with the 
\*                session state it keeps between reruns;                  
\*   SpecExtract  extract_json_from_string and the try/except of the two  
\*                generate functions applied to bounded response texts.   
\*                                                                        
\* A text is a sequence of tokens <<kind, lexeme>>; a parsed JSON value is
\* a record [type, s, m]: s is the lexeme of a string or number, m maps   
\* the keys of an object to the [type, s] of their values (the contents of
(* arrays and of nested values are not kept, the program never reads them).*)
(* A string literal or a number is one token, so a line break never falls  *)
(* inside a literal; true, false and null are not among the tokens.        *)
(***************************************************************************)
EXTENDS Integers, Sequences, FiniteSets, TLC

MaxLines == 3

----------------------------------------------------------------------------
\* Tokens.  FENCE stands for the fence marker, three backquotes.

NL == <<"eol", "\n">>
CRLF == <<"eol", "\r\n">>
SP == <<"ws", " ">>
FENCE == <<"fence", "bq3">>
WJSON == <<"word", "json">>
WHERE == <<"word", "Here">>
LBRACE == <<"p", "{">>
RBRACE == <<"p", "}">>
LBRACK == <<"p", "[">>
RBRACK == <<"p", "]">>
COMMA == <<"p", ",">>
COLON == <<"p", ":">>

S(x) == <<"str", x>>

N(x) == <<"num", x>>

----------------------------------------------------------------------------
\* Python values

EmptyMap == [k \in {} |-> [type |-> "str", s |-> ""]]

Val(t, x) == [type |-> t, s |-> x, m |-> EmptyMap]

Absent == Val("absent", "")

Raise == Val("raise", "")

PyDict(members) == [type |-> "object", s |-> "", m |-> members]

Member(v) == [type |-> v.type, s |-> v.s]

----------------------------------------------------------------------------
\* str.splitlines, str.strip, str.startswith, str.join

RECURSIVE SplitFrom(_, _, _)
SplitFrom(text, i, cur) ==
    IF i > Len(text)
    THEN (IF cur = <<>> THEN <<>> ELSE <<cur>>)
    ELSE IF text[i][1] = "eol"
         THEN <<cur>> \o SplitFrom(text, i + 1, <<>>)
         ELSE SplitFrom(text, i + 1, Append(cur, text[i]))

splitlines(text) == SplitFrom(text, 1, <<>>)

RECURSIVE lstrip(_)
lstrip(line) ==
    IF line # <<>> /\ Head(line)[1] = "ws" THEN lstrip(Tail(line)) ELSE line

RECURSIVE rstrip(_)
rstrip(line) ==
    IF line # <<>> /\ line[Len(line)][1] = "ws"
    THEN rstrip(SubSeq(line, 1, Len(line) - 1))
    ELSE line

strip(line) == rstrip(lstrip(line))

startswith(line, tok) == line # <<>> /\ Head(line) = tok

RECURSIVE join(_, _)
join(sep, lines) ==
    IF lines = <<>> THEN <<>>
    ELSE IF Len(lines) = 1 THEN lines[1]
    ELSE lines[1] \o <<sep>> \o join(sep, Tail(lines))

----------------------------------------------------------------------------
\* json.loads

IsJsonSpace(t) == t[1] \in {"ws", "eol"}

Ok(v, n) == [ok |-> TRUE, val |-> v, next |-> n]

Fail == [ok |-> FALSE, val |-> Raise, next |-> 0]

Put(acc, key, v) ==
    [k \in (DOMAIN acc) \cup {key} |-> IF k = key THEN Member(v) ELSE acc[k]]

RECURSIVE ParseValue(_, _)
RECURSIVE ParseMembers(_, _, _)
RECURSIVE ParseElements(_, _)

ParseValue(toks, i) ==
    IF i > Len(toks) THEN Fail
    ELSE IF toks[i][1] = "str" THEN Ok(Val("str", toks[i][2]), i + 1)
    ELSE IF toks[i][1] = "num" THEN Ok(Val("num", toks[i][2]), i + 1)
    ELSE IF toks[i] = LBRACE
         THEN IF i + 1 <= Len(toks) /\ toks[i + 1] = RBRACE
              THEN Ok(PyDict(EmptyMap), i + 2)
              ELSE ParseMembers(toks, i + 1, EmptyMap)
    ELSE IF toks[i] = LBRACK
         THEN IF i + 1 <= Len(toks) /\ toks[i + 1] = RBRACK
              THEN Ok(Val("array", ""), i + 2)
              ELSE ParseElements(toks, i + 1)
    ELSE Fail

ParseMembers(toks, i, acc) ==
    IF i + 1 > Len(toks) \/ toks[i][1] # "str" \/ toks[i + 1] # COLON
    THEN Fail
    ELSE LET r == ParseValue(toks, i + 2) IN
         IF ~r.ok \/ r.next > Len(toks) THEN Fail
         ELSE IF toks[r.next] = RBRACE
              THEN Ok(PyDict(Put(acc, toks[i][2], r.val)), r.next + 1)
         ELSE IF toks[r.next] = COMMA
              THEN ParseMembers(toks, r.next + 1, Put(acc, toks[i][2], r.val))
         ELSE Fail

ParseElements(toks, i) ==
    LET r == ParseValue(toks, i) IN
    IF ~r.ok \/ r.next > Len(toks) THEN Fail
    ELSE IF toks[r.next] = RBRACK THEN Ok(Val("array", ""), r.next + 1)
    ELSE IF toks[r.next] = COMMA THEN ParseElements(toks, r.next + 1)
    ELSE Fail

json_loads(str) ==
    LET toks == SelectSeq(str, LAMBDA t : ~IsJsonSpace(t))
        r == ParseValue(toks, 1)
    IN IF r.ok /\ r.next = Len(toks) + 1 THEN r.val ELSE Raise

----------------------------------------------------------------------------
\* extract_json_from_string

\* a variant that tests the line without trimming it
IsFenceLineUntrimmed(line) == startswith(line, FENCE)

IsFenceLine(line) == startswith(strip(line), FENCE)

JsonLines(text) == SelectSeq(splitlines(text), LAMBDA line : ~IsFenceLine(line))

JsonStr(text) == join(NL, JsonLines(text))

NoneContent == << <<"none", "None">> >>

extract_json_from_string(content) ==
    IF content = NoneContent THEN Raise ELSE json_loads(JsonStr(content))

----------------------------------------------------------------------------
\* dict.get, the text st.markdown renders for a value, the fixed records

St(x) == [type |-> "str", s |-> x]

get(plan, key, default) ==
    IF key \in DOMAIN plan.m THEN plan.m[key] ELSE St(default)

markdown(v) ==
    IF v.type \in {"str", "num"} THEN v.s
    ELSE IF v.type = "array" THEN "[...]" ELSE "{...}"

DietaryKeys ==
    {"meal_plan", "nutritional_breakdown", "rationale",
     "meal_preparation_tips", "important_considerations"}

FitnessKeys ==
    {"warmup", "main_workout", "cooldown", "benefits", "safety_guidelines"}

DietaryPlaceholder ==
    PyDict([meal_plan |-> St("Plan not available"),
            nutritional_breakdown |-> St("Not available"),
            rationale |-> St("Not provided"),
            meal_preparation_tips |-> St("Not provided"),
            important_considerations |-> St("Not provided")])

FitnessPlaceholder ==
    PyDict([warmup |-> St("Not available"),
            main_workout |-> St("Not available"),
            cooldown |-> St("Not available"),
            benefits |-> St("Not provided"),
            safety_guidelines |-> St("Not provided")])

----------------------------------------------------------------------------
\* display_dietary_plan, display_fitness_plan: what the viewer receives, in
\* order; a plan that is not a dict raises at the first plan.get, after the
\* first heading was rendered.

View(name, r, b) == [view |-> name, raised |-> r, body |-> b]

display_dietary_plan(plan) ==
    IF plan.type # "object"
    THEN View("dietary", TRUE, <<"## Meal Plan">>)
    ELSE View("dietary", FALSE,
         <<"## Meal Plan",
           markdown(get(plan, "meal_plan", "Meal plan not available")),
           "## Meal Preparation Tips",
           markdown(get(plan, "meal_preparation_tips",
                        "Meal preparation tips not provided")),
           "## Nutritional Breakdown",
           markdown(get(plan, "nutritional_breakdown",
                        "Nutritional breakdown not available")),
           "## Rationale",
           markdown(get(plan, "rationale", "Rationale not provided")),
           "## Important Considerations",
           markdown(get(plan, "important_considerations",
                        "Important considerations not provided"))>>)

display_fitness_plan(plan) ==
    IF plan.type # "object"
    THEN View("fitness", TRUE, <<"## Warm-up">>)
    ELSE View("fitness", FALSE,
         <<"## Warm-up",
           markdown(get(plan, "warmup", "Warm-up routine not available.")),
           "## Main Workout",
           markdown(get(plan, "main_workout",
                        "Main workout details not available.")),
           "## Cool-down",
           markdown(get(plan, "cooldown", "Cool-down routine not available.")),
           "## Benefits",
           markdown(get(plan, "benefits", "Benefits not provided.")),
           "## Safety Guidelines",
           markdown(get(plan, "safety_guidelines",
                        "Safety guidelines not provided."))>>)

----------------------------------------------------------------------------
\* combined_recommendations: the document is kept as the sequence of the
\* strings the expression concatenates.

\* a variant that exports in the order of the viewer
DietaryViewerOrder ==
    <<"meal_plan", "meal_preparation_tips", "nutritional_breakdown",
      "rationale", "important_considerations">>

DietaryExportOrder ==
    <<"meal_plan", "nutritional_breakdown", "rationale",
      "meal_preparation_tips", "important_considerations">>

FitnessExportOrder ==
    <<"warmup", "main_workout", "cooldown", "benefits", "safety_guidelines">>

ExportLabel(key) ==
    CASE key = "meal_plan" -> "**Meal Plan:**\n"
      [] key = "nutritional_breakdown" -> "**Nutritional Breakdown:**\n"
      [] key = "rationale" -> "**Rationale:**\n"
      [] key = "meal_preparation_tips" -> "**Meal Preparation Tips:**\n"
      [] key = "important_considerations" -> "**Important Considerations:**\n"
      [] key = "warmup" -> "**Warm-up:**\n"
      [] key = "main_workout" -> "**Main Workout:**\n"
      [] key = "cooldown" -> "**Cool-down:**\n"
      [] key = "benefits" -> "**Benefits:**\n"
      [] key = "safety_guidelines" -> "**Safety Guidelines:**\n"

\* a variant that writes the viewer's strings
ExportDefaultAsViewer(key) ==
    CASE key = "meal_plan" -> "Meal plan not available"
      [] key = "nutritional_breakdown" -> "Nutritional breakdown not available"
      [] key = "rationale" -> "Rationale not provided"
      [] key = "meal_preparation_tips" -> "Meal preparation tips not provided"
      [] key = "important_considerations" -> "Important considerations not provided"
      [] key = "warmup" -> "Warm-up routine not available."
      [] key = "main_workout" -> "Main workout details not available."
      [] key = "cooldown" -> "Cool-down routine not available."
      [] key = "benefits" -> "Benefits not provided."
      [] key = "safety_guidelines" -> "Safety guidelines not provided."

ExportDefault(key) ==
    CASE key = "meal_plan" -> "Plan not available"
      [] key = "nutritional_breakdown" -> "Not available"
      [] key = "rationale" -> "Not provided"
      [] key = "meal_preparation_tips" -> "Not provided"
      [] key = "important_considerations" -> "Not provided"
      [] key = "warmup" -> "Not available"
      [] key = "main_workout" -> "Not available"
      [] key = "cooldown" -> "Not available"
      [] key = "benefits" -> "Not provided"
      [] key = "safety_guidelines" -> "Not provided"

\* str + value raises TypeError unless the value is a str
Concatenable(plan, order) ==
    /\ plan.type = "object"
    /\ \A i \in 1..Len(order) :
          get(plan, order[i], ExportDefault(order[i])).type = "str"

RECURSIVE ExportFields(_, _, _)
ExportFields(plan, order, i) ==
    IF i > Len(order) THEN <<>>
    ELSE <<ExportLabel(order[i]),
           get(plan, order[i], ExportDefault(order[i])).s>>
         \o ExportFields(plan, order, i + 1)

RECURSIVE Separated(_)
Separated(fields) ==
    IF Len(fields) <= 2 THEN fields
    ELSE SubSeq(fields, 1, 2) \o <<"\n\n">> \o Separated(SubSeq(fields, 3, Len(fields)))

combined_recommendations(dietary, fitness) ==
    IF Concatenable(dietary, DietaryExportOrder)
       /\ Concatenable(fitness, FitnessExportOrder)
    THEN [raised |-> FALSE,
          doc |-> <<"### Dietary Plan\n">>
                  \o Separated(ExportFields(dietary, DietaryExportOrder, 1))
                  \o <<"\n\n", "### Fitness Plan\n">>
                  \o Separated(ExportFields(fitness, FitnessExportOrder, 1))]
    ELSE [raised |-> TRUE, doc |-> <<>>]

----------------------------------------------------------------------------
\* generate_dietary_plan, generate_fitness_plan.  An outcome is what
\* agent.run does: it raises a provider error or returns response.content.

ProviderError == [raised |-> TRUE, content |-> <<>>]

Returns(content) == [raised |-> FALSE, content |-> content]

ParseErrorMessage == "error: Failed to parse JSON response"

\* a variant whose except branch returns an empty record
ParseOrEmpty(r, placeholder) ==
    IF r.type = "raise" THEN PyDict(EmptyMap) ELSE r

ParseOrDefault(r, placeholder) == IF r.type = "raise" THEN placeholder ELSE r

\* a variant that runs the agent a second time
AgentRunTwice(name) == <<name \o ":call", name \o ":call">>

\* response = agent.run(user_profile)
AgentRun(name) == <<name \o ":call">>

Generated(name, outcome, placeholder) ==
    IF outcome.raised
    THEN [raised |-> TRUE, plan |-> Raise, messages |-> <<>>,
          log |-> AgentRun(name) \o <<name \o ":provider_error">>]
    ELSE LET r == extract_json_from_string(outcome.content) IN
         [raised |-> FALSE,
          plan |-> ParseOrDefault(r, placeholder),
          messages |-> IF r.type = "raise" THEN <<ParseErrorMessage>> ELSE <<>>,
          log |-> IF r.type = "raise"
                  THEN AgentRun(name) \o <<name \o ":parse_fail">>
                  ELSE AgentRun(name)]

generate_dietary_plan(outcome) == Generated("dietary", outcome, DietaryPlaceholder)

generate_fitness_plan(outcome) == Generated("fitness", outcome, FitnessPlaceholder)

----------------------------------------------------------------------------
\* The responses the agents are given to return in Spec

Pair(k, v) == <<S(k), COLON, SP, S(v)>>

Fenced(t) == <<FENCE, WJSON, NL>> \o t \o <<NL, FENCE>>

Record5(k, v) ==
    <<LBRACE, NL>> \o Pair(k[1], v[1]) \o <<COMMA, NL>>
    \o Pair(k[2], v[2]) \o <<COMMA, NL>> \o Pair(k[3], v[3]) \o <<COMMA, NL>>
    \o Pair(k[4], v[4]) \o <<COMMA, NL>> \o Pair(k[5], v[5]) \o <<NL, RBRACE>>

DietaryResponses ==
    { Fenced(Record5(DietaryExportOrder, <<"M1", "N1", "R1", "T1", "I1">>)),
      Record5(DietaryExportOrder, <<"M2", "N2", "R2", "T2", "I2">>),
      <<FENCE, NL, LBRACE>> \o Pair("meal_plan", "M1") \o <<RBRACE, NL, FENCE, NL>>,
      <<LBRACE>> \o Pair("meal_plan", "M1") \o <<COMMA, NL>>,
      <<FENCE, WJSON, NL, FENCE>>,
      <<LBRACK, S("M1"), RBRACK>>,
      <<LBRACE, S("meal_plan"), COLON, N("5"), RBRACE>>,
      NoneContent }

FitnessResponses ==
    { Fenced(Record5(FitnessExportOrder, <<"W1", "X1", "C1", "B1", "G1">>)),
      <<LBRACE>> \o Pair("warmup", "W1") \o <<RBRACE>>,
      <<LBRACE>> \o Pair("warmup", "W1") \o <<COMMA, NL>>,
      <<>>,
      <<N("5")>>,
      <<LBRACE, S("benefits"), COLON, LBRACE, RBRACE, RBRACE>> }

DietaryOutcomes == {ProviderError} \cup {Returns(t) : t \in DietaryResponses}

FitnessOutcomes == {ProviderError} \cup {Returns(t) : t \in FitnessResponses}

\* What can be typed into the credential field; "" is the blank field
Fields == {"", "sk-1"}

\* st.session_state has no attribute openai_api_key
NoKey == "<no attribute>"

----------------------------------------------------------------------------
\* The lines response texts are made of in SpecExtract

UnitLines ==
    { <<FENCE, WJSON>>,
      <<FENCE>>,
      <<SP, FENCE>>,
      <<WHERE, FENCE>>,
      <<>>,
      <<LBRACE>>,
      <<RBRACE>>,
      <<S("meal_plan"), COLON, SP, S("M1")>>,
      <<LBRACE, S("warmup"), COLON, S("W1"), RBRACE>> }

UnitTexts ==
    {NoneContent} \cup
    UNION { { join(eol, ls) \o (IF trailing THEN <<eol>> ELSE <<>>) :
                ls \in [1..n -> UnitLines] } :
            <<n, eol, trailing>> \in (0..MaxLines) \X {NL, CRLF} \X BOOLEAN }

----------------------------------------------------------------------------
VARIABLES
    field,            \* value of the "OpenAI API Key" text input
    openai_api_key,   \* st.session_state.openai_api_key, or NoKey
    dietary_plan,     \* st.session_state.dietary_plan, or Absent
    fitness_plan,     \* st.session_state.fitness_plan, or Absent
    plans_generated,  \* st.session_state.plans_generated (FALSE: absent)
    qa_pairs,         \* st.session_state.qa_pairs, "absent" or "[]"
    pc,               \* where the running script is; "idle": it has ended
    pressed,          \* st.button returned True in the current run
    button_rendered,  \* the last run got as far as rendering the button
    openai_model,     \* the local openai_model of main
    messages,         \* st.success / st.error / uncaught exception, this run
    shown,            \* the plan views rendered in this run
    log,              \* agent calls and failures of this run, in order
    download,         \* data of st.download_button in this run
    pre_dietary,      \* dietary_plan when the current run started
    pre_fitness,      \* fitness_plan when the current run started
    text,             \* SpecExtract: the response text
    json_lines,       \* SpecExtract: json_lines of extract_json_from_string
    json_str,         \* SpecExtract: json_str of extract_json_from_string
    result,           \* SpecExtract: what extract_json_from_string returns
    returned          \* SpecExtract: what the generate function returns

session == <<field, openai_api_key, dietary_plan, fitness_plan,
             plans_generated, qa_pairs>>

run == <<pc, pressed, button_rendered, openai_model, messages, shown, log,
         download, pre_dietary, pre_fitness>>

unit == <<text, json_lines, json_str, result, returned>>

vars == <<session, run, unit>>

NoDownload == <<>>

NoText == <<>>

KeyUpdated == "success: API key updated!"

ProvideKey == "error: Please provide openai_api_key"

InitError == "error: Error initializing OpenAI Model"

ErrorOccurred == "error: An error occurred"

Uncaught == "exception: uncaught"

Init ==
    /\ field = ""
    /\ openai_api_key = NoKey
    /\ dietary_plan = Absent
    /\ fitness_plan = Absent
    /\ plans_generated = FALSE
    /\ qa_pairs = "absent"
    /\ pc = "idle"
    /\ pressed = FALSE
    /\ button_rendered = TRUE
    /\ openai_model = "unset"
    /\ messages = <<>>
    /\ shown = <<>>
    /\ log = <<>>
    /\ download = NoDownload
    /\ pre_dietary = Absent
    /\ pre_fitness = Absent
    /\ text = NoText
    /\ json_lines = <<>>
    /\ json_str = <<>>
    /\ result = Absent
    /\ returned = Absent

----------------------------------------------------------------------------
\* main, one rerun of the script at a time

\* a variant without the test under the button
MissingCredentialNever(key) == FALSE

\* not hasattr(st.session_state, "openai_api_key")
MissingCredential(key) == key = NoKey

\* if openai_api_key: st.session_state.openai_api_key = openai_api_key
StoredKey(old, typed) == IF typed # "" THEN typed ELSE old

\* "If plans are already generated, display them regardless of the button click."
StoredViews(dietary, fitness) ==
    IF dietary.type # "absent" /\ fitness.type # "absent"
    THEN LET v == display_dietary_plan(dietary) IN
         IF v.raised THEN <<v>> ELSE <<v, display_fitness_plan(fitness)>>
    ELSE <<>>

Crashed(views) == \E i \in 1..Len(views) : views[i].raised

\* a variant that stores the placeholder when generate raised
StorePlanAnyway(old, g) == IF g.raised THEN DietaryPlaceholder ELSE g.plan

\* st.session_state.<plan> = <plan> is reached only if generate returned
StorePlan(old, g) == IF g.raised THEN old ELSE g.plan

\* The script runs from the top down to the button: the credential field,
\* the stored plans, and the first test under the button.
Main(typed, press) ==
    /\ pc = "idle"
    /\ press => button_rendered
    /\ LET key == StoredKey(openai_api_key, typed)
           views == StoredViews(dietary_plan, fitness_plan)
           crash == Crashed(views)
       IN /\ field' = typed
          /\ openai_api_key' = key
          /\ shown' = views
          /\ button_rendered' = ~crash
          /\ pressed' = (press /\ ~crash)
          /\ messages' =
                (IF typed # "" THEN <<KeyUpdated>> ELSE <<>>)
                \o (IF crash THEN <<Uncaught>>
                    ELSE IF press /\ MissingCredential(key) THEN <<ProvideKey>>
                    ELSE <<>>)
          /\ pc' = IF ~crash /\ press /\ ~MissingCredential(key)
                   THEN "init" ELSE "idle"
    /\ pre_dietary' = dietary_plan
    /\ pre_fitness' = fitness_plan
    /\ log' = <<>>
    /\ download' = NoDownload
    /\ openai_model' = "unset"
    /\ UNCHANGED <<dietary_plan, fitness_plan, plans_generated, qa_pairs, unit>>

\* initialize_openai_model: OpenAIChat(...) is built, or raises and None is
\* returned after st.error
InitializeOpenaiModel(ok) ==
    /\ pc = "init"
    /\ openai_model' = IF ok THEN "OpenAIChat" ELSE "None"
    /\ messages' = IF ok THEN messages ELSE Append(messages, InitError)
    /\ log' = IF ok THEN log ELSE Append(log, "init_fail")
    /\ pc' = "dietary"
    /\ UNCHANGED <<session, pressed, button_rendered, shown, download,
                   pre_dietary, pre_fitness, unit>>

\* first spinner block: generate, store, display, or st.error
DietaryBlock(outcome) ==
    /\ pc = "dietary"
    /\ LET g == generate_dietary_plan(outcome)
           v == display_dietary_plan(g.plan)
       IN /\ dietary_plan' = StorePlan(dietary_plan, g)
          /\ shown' = IF g.raised THEN shown ELSE Append(shown, v)
          /\ messages' = messages \o g.messages
                \o (IF g.raised \/ v.raised THEN <<ErrorOccurred>> ELSE <<>>)
          /\ log' = log \o g.log
    /\ pc' = "fitness"
    /\ UNCHANGED <<field, openai_api_key, fitness_plan, plans_generated,
                   qa_pairs, pressed, button_rendered, openai_model, download,
                   pre_dietary, pre_fitness, unit>>

\* second spinner block
FitnessBlock(outcome) ==
    /\ pc = "fitness"
    /\ LET g == generate_fitness_plan(outcome)
           v == display_fitness_plan(g.plan)
       IN /\ fitness_plan' = StorePlan(fitness_plan, g)
          /\ shown' = IF g.raised THEN shown ELSE Append(shown, v)
          /\ messages' = messages \o g.messages
                \o (IF g.raised \/ v.raised THEN <<ErrorOccurred>> ELSE <<>>)
          /\ log' = log \o g.log
    /\ pc' = "export"
    /\ UNCHANGED <<field, openai_api_key, dietary_plan, plans_generated,
                   qa_pairs, pressed, button_rendered, openai_model, download,
                   pre_dietary, pre_fitness, unit>>

\* plans_generated, qa_pairs, the disclaimer, combined_recommendations and
\* the download button; an exception in the expression ends the script
Export ==
    /\ pc = "export"
    /\ plans_generated' = TRUE
    /\ qa_pairs' = "[]"
    /\ LET c == combined_recommendations(dietary_plan, fitness_plan) IN
          /\ download' = IF c.raised THEN NoDownload ELSE c.doc
          /\ messages' = IF c.raised THEN Append(messages, Uncaught)
                         ELSE messages
    /\ shown' = Append(shown, View("disclaimer", FALSE, <<"**Disclaimer:**">>))
    /\ log' = Append(log, "export")
    /\ pc' = "idle"
    /\ UNCHANGED <<field, openai_api_key, dietary_plan, fitness_plan, pressed,
                   button_rendered, openai_model, pre_dietary, pre_fitness,
                   unit>>

Next ==
    \/ \E typed \in Fields, press \in BOOLEAN : Main(typed, press)
    \/ \E ok \in BOOLEAN : InitializeOpenaiModel(ok)
    \/ \E outcome \in DietaryOutcomes : DietaryBlock(outcome)
    \/ \E outcome \in FitnessOutcomes : FitnessBlock(outcome)
    \/ Export

Spec == Init /\ [][Next]_vars

----------------------------------------------------------------------------
\* SpecExtract: extract_json_from_string and the two generate functions on
\* every text of UnitTexts

InitExtract ==
    /\ field = ""
    /\ openai_api_key = NoKey
    /\ dietary_plan = Absent
    /\ fitness_plan = Absent
    /\ plans_generated = FALSE
    /\ qa_pairs = "absent"
    /\ pc = "unit"
    /\ pressed = FALSE
    /\ button_rendered = TRUE
    /\ openai_model = "unset"
    /\ messages = <<>>
    /\ shown = <<>>
    /\ log = <<>>
    /\ download = NoDownload
    /\ pre_dietary = Absent
    /\ pre_fitness = Absent
    /\ text \in UnitTexts
    /\ json_lines = <<>>
    /\ json_str = <<>>
    /\ result = Absent
    /\ returned = Absent

UnitExtract ==
    /\ pc = "unit"
    /\ json_lines' = IF text = NoneContent THEN <<>> ELSE JsonLines(text)
    /\ json_str' = IF text = NoneContent THEN <<>> ELSE JsonStr(text)
    /\ result' = extract_json_from_string(text)
    /\ pc' = "extracted"
    /\ UNCHANGED <<session, pressed, button_rendered, openai_model, messages,
                   shown, log, download, pre_dietary, pre_fitness, text,
                   returned>>

UnitDietary ==
    /\ pc = "extracted"
    /\ LET g == generate_dietary_plan(Returns(text)) IN
          /\ returned' = g.plan
          /\ messages' = g.messages
          /\ log' = g.log
    /\ pc' = "dietary_returned"
    /\ UNCHANGED <<session, pressed, button_rendered, openai_model, shown,
                   download, pre_dietary, pre_fitness, text, json_lines,
                   json_str, result>>

UnitFitness ==
    /\ pc = "extracted"
    /\ LET g == generate_fitness_plan(Returns(text)) IN
          /\ returned' = g.plan
          /\ messages' = g.messages
          /\ log' = g.log
    /\ pc' = "fitness_returned"
    /\ UNCHANGED <<session, pressed, button_rendered, openai_model, shown,
                   download, pre_dietary, pre_fitness, text, json_lines,
                   json_str, result>>

NextExtract == UnitExtract \/ UnitDietary \/ UnitFitness

SpecExtract == InitExtract /\ [][NextExtract]_vars

----------------------------------------------------------------------------
\* Properties

Has(seq, x) == \E i \in 1..Len(seq) : seq[i] = x

Count(seq, x) == Cardinality({i \in 1..Len(seq) : seq[i] = x})

Present(plan) == plan.type # "absent"

Calls == {"dietary:call", "fitness:call"}

Failures ==
    {"init_fail", "dietary:provider_error", "dietary:parse_fail",
     "fitness:provider_error", "fitness:parse_fail"}

PlansAsBefore == dietary_plan = pre_dietary /\ fitness_plan = pre_fitness

\* C1 as stated: a run in which the credential field is blank and the button
\* is pressed ends with the error message shown, no agent call made and both
\* plans as they were.
C1_BlankFieldPressRefused ==
    (pc = "idle" /\ pressed /\ field = "")
        => /\ Has(messages, ProvideKey)
           /\ \A i \in 1..Len(log) : log[i] \notin Calls
           /\ PlansAsBefore

\* C1 amended: a run in which the credential field is blank, session state
\* holds no credential, and the button is pressed stops under the button: the
\* error message is shown, no agent is called, both plans are as they were.
C1_NoCredentialPressRefused ==
    (pressed /\ field = "" /\ openai_api_key = NoKey)
        => /\ pc = "idle"
           /\ Has(messages, ProvideKey)
           /\ log = <<>>
           /\ PlansAsBefore

C1_Witness ==
    /\ pressed /\ field = "" /\ openai_api_key = NoKey
    /\ pc = "idle" /\ Has(messages, ProvideKey)

\* C2 as stated: when an agent call raised a provider error during a press,
\* at the end of the action an error message is shown and neither plan
\* differs from its value before the press.
C2_ProviderErrorKeepsBothPlans ==
    (pc = "idle" /\ (Has(log, "dietary:provider_error")
                     \/ Has(log, "fitness:provider_error")))
        => Has(messages, ErrorOccurred) /\ PlansAsBefore

\* C2 amended: when an agent call raised a provider error during a press, an
\* error message is shown and the plan of that agent keeps the value (or the
\* absence) it had before the press.
C2_ProviderErrorKeepsItsPlan ==
    /\ Has(log, "dietary:provider_error")
          => Has(messages, ErrorOccurred) /\ dietary_plan = pre_dietary
    /\ Has(log, "fitness:provider_error")
          => Has(messages, ErrorOccurred) /\ fitness_plan = pre_fitness

C2_Witness ==
    /\ pc = "idle"
    /\ Has(log, "dietary:provider_error")
    /\ dietary_plan = pre_dietary
    /\ fitness_plan # pre_fitness

NoValueFrom(plan, t) ==
    \A k \in DOMAIN plan.m : \A i \in 1..Len(t) : plan.m[k].s # t[i][2]

AllStringRecord(plan, keys) ==
    /\ plan.type = "object"
    /\ DOMAIN plan.m = keys
    /\ \A k \in keys : plan.m[k].type = "str"

\* C3: when the fence-stripped response text does not parse, each generate
\* function shows the parse message and returns its fixed placeholder record:
\* exactly the five keys of the plan type, no value from the response.
C3_UnparseableGivesPlaceholder ==
    /\ (pc = "dietary_returned" /\ result.type = "raise")
          => /\ Has(messages, ParseErrorMessage)
             /\ returned = DietaryPlaceholder
             /\ AllStringRecord(returned, DietaryKeys)
             /\ NoValueFrom(returned, text)
    /\ (pc = "fitness_returned" /\ result.type = "raise")
          => /\ Has(messages, ParseErrorMessage)
             /\ returned = FitnessPlaceholder
             /\ AllStringRecord(returned, FitnessKeys)
             /\ NoValueFrom(returned, text)

C3_Witness ==
    /\ pc = "dietary_returned"
    /\ result.type = "raise"
    /\ Has(json_str, LBRACE) /\ ~Has(json_str, RBRACE)
    /\ returned = DietaryPlaceholder

FlatStringRecord(plan) ==
    plan.type = "object" /\ \A k \in DOMAIN plan.m : plan.m[k].type = "str"

\* C4: a plan in session state is always a flat record whose values are all
\* strings; a list, number, bare string, or a record with a non-string value
\* is never stored.
C4_OnlyFlatStringRecordsStored ==
    /\ Present(dietary_plan) => FlatStringRecord(dietary_plan)
    /\ Present(fitness_plan) => FlatStringRecord(fitness_plan)

\* the trimmed line starts with the fence marker
TrimmedStartsWithFence(line) ==
    \E k \in 1..Len(line) :
        line[k] = FENCE /\ \A j \in 1..(k - 1) : line[j][1] = "ws"

KeptIndexes(ls) == {i \in 1..Len(ls) : ~TrimmedStartsWithFence(ls[i])}

Nth(indexes, j) ==
    CHOOSE i \in indexes : Cardinality({x \in indexes : x <= i}) = j

\* C5: the lines handed to the parser are exactly the lines of the text whose
\* trimmed content does not start with the fence marker, in their order:
\* without fence lines all lines are parsed, and a text wrapped in a first and
\* a last fence line yields its inner lines and the parse of those.
C5_ParsesTheNonFenceLines ==
    (pc # "unit" /\ text # NoneContent) =>
        LET ls == splitlines(text)
            keep == KeptIndexes(ls)
            inner == SubSeq(ls, 2, Len(ls) - 1)
        IN /\ Len(json_lines) = Cardinality(keep)
           /\ \A j \in 1..Len(json_lines) : json_lines[j] = ls[Nth(keep, j)]
           /\ json_str = join(NL, json_lines)
           /\ keep = 1..Len(ls)
                 => json_lines = ls /\ result = json_loads(join(NL, ls))
           /\ ( /\ Len(ls) >= 2
                /\ TrimmedStartsWithFence(ls[1])
                /\ TrimmedStartsWithFence(ls[Len(ls)])
                /\ keep = 2..(Len(ls) - 1) )
                 => json_lines = inner /\ result = json_loads(join(NL, inner))

C5_Witness ==
    /\ pc = "extracted"
    /\ text = <<FENCE, WJSON, NL,
                LBRACE, S("warmup"), COLON, S("W1"), RBRACE, NL, SP, FENCE>>
    /\ json_lines = << <<LBRACE, S("warmup"), COLON, S("W1"), RBRACE>> >>
    /\ result.type = "object"

TenKeys ==
    <<"meal_plan", "nutritional_breakdown", "rationale",
      "meal_preparation_tips", "important_considerations",
      "warmup", "main_workout", "cooldown", "benefits", "safety_guidelines">>

TenLabels ==
    <<"**Meal Plan:**\n", "**Nutritional Breakdown:**\n", "**Rationale:**\n",
      "**Meal Preparation Tips:**\n", "**Important Considerations:**\n",
      "**Warm-up:**\n", "**Main Workout:**\n", "**Cool-down:**\n",
      "**Benefits:**\n", "**Safety Guidelines:**\n">>

TenHeadings ==
    <<"## Meal Plan", "## Nutritional Breakdown", "## Rationale",
      "## Meal Preparation Tips", "## Important Considerations",
      "## Warm-up", "## Main Workout", "## Cool-down", "## Benefits",
      "## Safety Guidelines">>

PlanOf(n) == IF TenKeys[n] \in DietaryKeys THEN dietary_plan ELSE fitness_plan

PlaceholderOf(n) ==
    IF TenKeys[n] \in DietaryKeys THEN DietaryPlaceholder ELSE FitnessPlaceholder

\* the labelled sections of a document: what is left without the two
\* headings and the blank lines, a label and a text in turn
Sections(doc) ==
    SelectSeq(doc, LAMBDA x :
        x \notin {"\n\n", "### Dietary Plan\n", "### Fitness Plan\n"})

FullStringRecord(plan, keys) ==
    /\ plan.type = "object"
    /\ keys \subseteq DOMAIN plan.m
    /\ \A k \in keys : plan.m[k].type = "str"

\* C6: from two records holding all their five keys with string values, the
\* export document has exactly ten labelled sections, each label followed by
\* the record's value, in the order of TenKeys.
C6_TenSectionsInOrder ==
    ( /\ download # NoDownload
      /\ FullStringRecord(dietary_plan, DietaryKeys)
      /\ FullStringRecord(fitness_plan, FitnessKeys) )
        => /\ Len(Sections(download)) = 2 * Len(TenLabels)
           /\ \A n \in 1..Len(TenLabels) :
                 /\ Sections(download)[2 * n - 1] = TenLabels[n]
                 /\ Sections(download)[2 * n] = PlanOf(n).m[TenKeys[n]].s

C6_Witness ==
    /\ download # NoDownload
    /\ FullStringRecord(dietary_plan, DietaryKeys)
    /\ FullStringRecord(fitness_plan, FitnessKeys)
    /\ dietary_plan.m["meal_plan"].s = "M2"
    /\ fitness_plan.m["safety_guidelines"].s = "G1"

\* C7: the export step is executed only with both plan records present in
\* session state.
C7_ExportOnlyWithBothPlans ==
    Has(log, "export") => Present(dietary_plan) /\ Present(fitness_plan)

\* C8 as stated: after a failure in a press no further agent call is made in
\* that run, and no agent is called more than once.
C8_FailureIsTerminal ==
    /\ \A i, j \in 1..Len(log) :
          (i < j /\ log[i] \in Failures) => log[j] \notin Calls
    /\ \A c \in Calls : Count(log, c) <= 1

\* C8 amended: nothing is retried, no agent is called more than once per
\* press; a failure does not end the action: once the credential test has
\* passed, the dietary agent and then the fitness agent are each called once,
\* whatever failed before.
C8_NothingRetried ==
    /\ \A c \in Calls : Count(log, c) <= 1
    /\ (pc = "export" \/ Has(log, "export"))
          => \E i, j \in 1..Len(log) :
                i < j /\ log[i] = "dietary:call" /\ log[j] = "fitness:call"

C8_Witness ==
    /\ Has(log, "export")
    /\ Has(log, "init_fail")
    /\ Has(log, "dietary:provider_error")
    /\ Has(log, "fitness:parse_fail")
    /\ Count(log, "dietary:call") = 1 /\ Count(log, "fitness:call") = 1

MissingKeys == {n \in 1..Len(TenKeys) : TenKeys[n] \notin DOMAIN PlanOf(n).m}

\* the text the export document has under the label of field n
Exported(n) ==
    LET sec == Sections(download)
        at == CHOOSE i \in 1..Len(sec) : sec[i] = TenLabels[n]
    IN sec[at + 1]

\* the text the last complete view of the field's plan has under its heading
Viewed(n) ==
    LET name == IF TenKeys[n] \in DietaryKeys THEN "dietary" ELSE "fitness"
        views == SelectSeq(shown, LAMBDA v : v.view = name /\ ~v.raised)
        body == views[Len(views)].body
        at == CHOOSE i \in 1..Len(body) : body[i] = TenHeadings[n]
    IN body[at + 1]

\* C9 as stated: for a field whose key the record lacks, the viewer's text,
\* the export document's text and the placeholder record's value are the same.
C9_ViewerExportPlaceholderAgree ==
    download # NoDownload =>
        \A n \in MissingKeys :
            /\ Viewed(n) = Exported(n)
            /\ Exported(n) = PlaceholderOf(n).m[TenKeys[n]].s

\* C9 amended: for a field whose key the record lacks, the export document's
\* text is that field's value in the placeholder record (the viewer shows a
\* string of its own).
C9_ExportWritesPlaceholderValue ==
    download # NoDownload =>
        \A n \in MissingKeys : Exported(n) = PlaceholderOf(n).m[TenKeys[n]].s

C9_Witness ==
    /\ download # NoDownload
    /\ \E n \in MissingKeys : TenKeys[n] = "rationale"
    /\ \E n \in MissingKeys : TenKeys[n] = "cooldown"

StoredPlansShown ==
    /\ \E i \in 1..Len(shown) : shown[i].view = "dietary" /\ ~shown[i].raised
    /\ \E i \in 1..Len(shown) : shown[i].view = "fitness" /\ ~shown[i].raised

\* C10: when a rerun has passed the stored-plan test (nothing generated yet
\* in the run), the stored plans are displayed if and only if both records
\* were present in session state.
C10_StoredShownIffBothPresent ==
    (pc \in {"idle", "init"} /\ log = <<>>)
        => (StoredPlansShown <=> (Present(pre_dietary) /\ Present(pre_fitness)))

====
